---- MODULE Spec2Model ----
(***************************************************************************)
(* Chunk storage of the download manager (src/background/chunk-storage.ts) *)
(*                                                                         *)
(* Two backends share the writer task queue of ChunkStorageWriter:         *)
(*   - SegmentedFileChunkStorage: writers buffer in memory, flush() stores *)
(*     one segment per call in an IndexedDB object store;                  *)
(*   - MutableFileChunkStorage: writers write into one random-access file, *)
(*     persist() appends the table of (startPosition, writtenSize) pairs.  *)
(*                                                                         *)
(* JavaScript runs the code single-threaded: every action below is one     *)
(* run-to-completion piece of code (a call, or the part of an async body   *)
(* between two awaits).  Promise plumbing that runs no user code (a        *)
(* fulfilment passing through .catch, the settling of .then(noop, noop))   *)
(* is folded into the predicate PromiseState.                              *)
(***************************************************************************)
EXTENDS Integers, Sequences, FiniteSets, Bags, TLC

\* ------------------------------------------------------------------ bounds
MaxWriters == 2
MaxOps == 4
MaxFailures == 2
MaxDeletes == 1
MaxGetFiles == 1
MaxDataLen == 1
MaxStart == 1
MaxPersists == 2
MaxResets == 1
TotalSize == 2
MaxFileOps == 2
MaxFileFailures == 1
MaxLoadAt == 1
MaxEntries == 3
MaxEntry == 3

VARIABLES
    writers,      \* the ChunkStorageWriter objects, in creation order
    onError,      \* bag of the errors dispatched on parent.onError
    failures,     \* number of transient I/O failures injected so far
    flushSentry,  \* SegmentedFileChunkStorage.flushSentry (token as a number)
    segments,     \* the 'data' object store restricted to this storage id
    txQueue,      \* read/write transactions created and not yet finished
    getFile,      \* the promise of the latest getFile() call
    deletes,      \* number of delete() calls so far
    file,         \* the bytes of the backing IDBMutableFile
    persistenceData, \* MutableFileChunkStorage.persistenceData (Float64Array)
    pdId,         \* identity of the array object persistenceData refers to
    persistSentry, \* MutableFileChunkStorage.persistSentry (token as a number)
    persists,     \* the persist() calls, in call order
    truncs,       \* truncate(0) requests of reset() still in flight
    resets,       \* number of reset() calls so far
    lastIO,       \* the persist() call whose file request finished last
    loading       \* the load() call: its position and what it returned

qVars == <<writers, onError, failures>>
segVars == <<flushSentry, segments, txQueue, getFile, deletes>>
raVars == <<file, persistenceData, pdId, persistSentry, persists, truncs,
            resets, lastIO, loading>>
vars == <<writers, onError, failures, flushSentry, segments, txQueue,
          getFile, deletes, file, persistenceData, pdId, persistSentry,
          persists, truncs, resets, lastIO, loading>>

\* ----------------------------------------------------------------- helpers
RECURSIVE concatTypedArray(_)
\* util.concatTypedArray: the arrays of a list joined in list order
concatTypedArray(list) ==
    IF list = <<>> THEN <<>>
    ELSE Head(list) \o concatTypedArray(Tail(list))

\* the bytes of the i-th operation of writer w when it carries len bytes
Data(w, i, len) == [k \in 1..len |-> 10 * w + i]

Writers == 1..Len(writers)
OpsOf(w) == 1..Len(writers[w].ops)

RECURSIVE SumOps(_)
SumOps(ws) == IF ws = <<>> THEN 0 ELSE Len(Head(ws).ops) + SumOps(Tail(ws))
\* number of write()/flush() calls made so far on all writers
TotalOps == SumOps(writers)

\* ------------------------------------------------- ChunkStorageWriter.sync
\* A promise of the queue: the initial Promise.resolve(), result = the
\* promise of fn (promise.then(fn)), or result.catch(handler), wrapped
\* `heals` times by .then(noop, noop).
InitPromise == [kind |-> "init", op |-> 0, heals |-> 0]

\* result.catch(handler) of operation o: fulfilled with result, or once
\* the handler has run and returned
CatchStateRethrow(o) ==
    IF o.st = "fulfilled" THEN "fulfilled"
    ELSE IF o.st = "rejected" /\ o.caught THEN "rejected" ELSE "pending"
CatchState(o) ==
    IF o.st = "fulfilled" \/ (o.st = "rejected" /\ o.caught)
    THEN "fulfilled" ELSE "pending"

PromiseState(w, p) ==
    LET o == writers[w].ops[p.op]
        inner == CASE p.kind = "init" -> "fulfilled"
                   [] p.kind = "result" ->
                        IF o.st \in {"fulfilled", "rejected"} THEN o.st
                        ELSE "pending"
                   [] p.kind = "catch" -> CatchState(o)
    IN IF p.heals > 0 /\ inner = "rejected" THEN "fulfilled" ELSE inner

\* this.promise = result.catch(...)
SyncTailNoCatch(i) == [kind |-> "result", op |-> i, heals |-> 0]
SyncTail(i) == [kind |-> "catch", op |-> i, heals |-> 0]

\* return result: the promise write()/flush() hand to their caller
SyncReturn(i) == [kind |-> "result", op |-> i, heals |-> 0]

\* this.promise.then(fn): fn may run once this.promise is fulfilled
ThenUnchained(w, i) == TRUE
ThenReady(w, i) == PromiseState(w, writers[w].ops[i].prev) # "pending"

\* parent.onError.dispatch(error)
DispatchTwice(bag, e) == bag (+) SetToBag({e}) (+) SetToBag({e})
Dispatch(bag, e) == bag (+) SetToBag({e})

\* sync(fn): result = this.promise.then(fn); this.promise = result.catch(h)
sync(w, kind, data) ==
    LET i == Len(writers[w].ops) + 1
        op == [kind |-> kind, data |-> data, st |-> "queued",
               caught |-> FALSE, ran |-> FALSE, err |-> <<w, i>>,
               prev |-> writers[w].promise,
               stale |-> FALSE, hadData |-> FALSE, stored |-> 0,
               pd |-> 0, pos |-> 0]
    IN [writers EXCEPT ![w].ops = Append(@, op), ![w].promise = SyncTail(i)]

\* result (the promise of operation i) settles as st
Settle(ws, w, i, st) == [ws EXCEPT ![w].ops[i].st = st]

\* fn is entered: the body of operation i begins
Begin(ws, w, i) ==
    [ws EXCEPT ![w].ops[i].ran = TRUE, ![w].started = Append(@, i)]

\* result settles without fn having run: this.promise was rejected
PassRejection(w, i) ==
    [writers EXCEPT ![w].ops[i].st = "rejected",
                    ![w].ops[i].err = writers[w].ops[writers[w].ops[i].prev.op].err]

\* the handler of result.catch: heal the queue, report the error
CatchHandler(w, i) ==
    /\ writers[w].ops[i].st = "rejected"
    /\ ~writers[w].ops[i].caught
    /\ writers' = [writers EXCEPT ![w].promise.heals = @ + 1,
                                  ![w].ops[i].caught = TRUE]
    /\ onError' = Dispatch(onError, writers[w].ops[i].err)
    /\ UNCHANGED failures

\* write(data) { return this.sync(() => this.doWrite(data)) }
Write(w, len) ==
    /\ writers' = sync(w, "write", Data(w, Len(writers[w].ops) + 1, len))
    /\ UNCHANGED <<onError, failures>>

\* flush() { return this.sync(() => this.doFlush()) }
Flush(w) ==
    /\ writers' = sync(w, "flush", <<>>)
    /\ UNCHANGED <<onError, failures>>

\* the random-access storage right after init(false): an empty file, the
\* table new Float64Array([0]), nothing in flight
RAFresh ==
    /\ file = <<>>
    /\ persistenceData = <<0>>
    /\ pdId = 0
    /\ persistSentry = 0
    /\ persists = <<>>
    /\ truncs = 0
    /\ resets = 0
    /\ lastIO = 0
    /\ loading = [pc |-> "none", totalSize |-> 0, size |-> 0, result |-> <<>>]

\* ------------------------------------------- SegmentedFileChunkStorage
\* writer(startPosition): new SegmentedFileChunkStorage.Writer
SegWriter(s) ==
    /\ Len(writers) < MaxWriters
    /\ writers' = Append(writers,
          [startPosition |-> s, writtenSize |-> 0, promise |-> InitPromise,
           ops |-> <<>>, started |-> <<>>,
           bufferPosition |-> s, bufferData |-> <<>>,
           flushSentry |-> flushSentry, written |-> <<>>, born |-> deletes])
    /\ UNCHANGED <<onError, failures, segVars, raVars>>

SegWrite(w, len) ==
    TotalOps < MaxOps /\ Write(w, len) /\ UNCHANGED <<segVars, raVars>>
SegFlush(w) ==
    TotalOps < MaxOps /\ Flush(w) /\ UNCHANGED <<segVars, raVars>>
SegCatch(w, i) == CatchHandler(w, i) /\ UNCHANGED <<segVars, raVars>>

\* Writer.doWrite: buffer the data, no I/O
SegDoWrite(ws, w, i) ==
    LET data == ws[w].ops[i].data
    IN IF Len(data) = 0 THEN Settle(ws, w, i, "fulfilled")
       ELSE [Settle(ws, w, i, "fulfilled") EXCEPT
                ![w].bufferData = Append(@, data),
                ![w].writtenSize = @ + Len(data),
                ![w].written = @ \o data]

\* the key of the segment a flush stores: [parent.id, bufferPosition]
FlushKeyFromWritten(wr) == wr.startPosition + wr.writtenSize
FlushKey(wr) == wr.bufferPosition

\* the then-reaction of result = this.promise.then(fn) for a segmented
\* writer: doWrite entirely, doFlush up to its await
SegThen(w, i) ==
    /\ writers[w].ops[i].st = "queued"
    /\ ThenReady(w, i)
    /\ IF PromiseState(w, writers[w].ops[i].prev) = "rejected"
       THEN writers' = PassRejection(w, i) /\ UNCHANGED txQueue
       ELSE LET wr == writers[w]
                ws == [Begin(writers, w, i) EXCEPT
                         ![w].ops[i].stale =
                             wr.ops[i].kind = "flush" /\ wr.born < deletes,
                         ![w].ops[i].hadData =
                             wr.ops[i].kind = "flush" /\ wr.bufferData # <<>>]
            IN IF wr.ops[i].kind = "write"
               THEN writers' = SegDoWrite(ws, w, i) /\ UNCHANGED txQueue
               ELSE IF wr.flushSentry # flushSentry
               THEN writers' = Settle(ws, w, i, "fulfilled") /\ UNCHANGED txQueue
               ELSE IF wr.bufferData = <<>>
               THEN writers' = Settle(ws, w, i, "fulfilled") /\ UNCHANGED txQueue
               ELSE /\ writers' = Settle(ws, w, i, "running")
                    /\ txQueue' = Append(txQueue,
                          [kind |-> "add", w |-> w, i |-> i,
                           key |-> FlushKey(wr),
                           data |-> concatTypedArray(wr.bufferData)])
    /\ UNCHANGED <<onError, failures, flushSentry, segments, getFile, deletes, raVars>>

\* an IDBKeyRange scan of the store in key order, as getFile's cursor does:
\* assert(startPosition === nextPosition) on every record
RECURSIVE ScanCursor(_, _, _)
ScanCursor(recs, nextPosition, blobs) ==
    IF recs = {} THEN [threw |-> FALSE, blobs |-> blobs]
    ELSE LET r == CHOOSE x \in recs : \A y \in recs : x.key <= y.key
         IN IF r.key # nextPosition THEN [threw |-> TRUE, blobs |-> blobs]
            ELSE ScanCursor(recs \ {r}, nextPosition + Len(r.data),
                            blobs \o r.data)

\* the promise getFile() returns once the cursor has stopped: an exception
\* thrown by assert inside the 'success' listener reaches neither resolve
\* nor reject, so the promise is left pending
GetFileOutcomeRejecting(scan) == IF scan.threw THEN "rejected" ELSE "resolved"
GetFileOutcome(scan) == IF scan.threw THEN "pending" ELSE "resolved"

HasKey(k) == \E r \in segments : r.key = k

\* `await idbTransaction(transaction)` throws: doFlush ends there, buffer
\* and bufferPosition keep their values
FlushFailedDropsBuffer(ws, w, i) ==
    [Settle(ws, w, i, "rejected") EXCEPT ![w].bufferData = <<>>]
FlushFailed(ws, w, i) == Settle(ws, w, i, "rejected")

\* this.bufferPosition += data.length
PositionPlusLengthPlusOne(position, data) == position + Len(data) + 1
PositionPlusLength(position, data) == position + Len(data)

\* the oldest transaction finishes: a flush's add commits (or fails on an
\* existing key) and doFlush resumes after its await; a delete empties the
\* key range; getFile's readonly cursor runs to its end
SegTxCommit ==
    /\ txQueue # <<>>
    /\ LET tx == Head(txQueue)
       IN CASE tx.kind = "add" ->
                 IF HasKey(tx.key)
                 THEN /\ writers' = FlushFailed(writers, tx.w, tx.i)
                      /\ UNCHANGED <<segments, getFile>>
                 ELSE /\ segments' = segments \cup
                            {[key |-> tx.key, data |-> tx.data, owner |-> tx.w]}
                      /\ writers' = [Settle(writers, tx.w, tx.i, "fulfilled")
                            EXCEPT ![tx.w].bufferPosition =
                                       PositionPlusLength(@, tx.data),
                                   ![tx.w].bufferData = <<>>,
                                   ![tx.w].ops[tx.i].stored = @ + 1]
                      /\ UNCHANGED getFile
            [] tx.kind = "delete" ->
                 /\ segments' = {}
                 /\ UNCHANGED <<writers, getFile>>
            [] tx.kind = "read" ->
                 /\ LET scan == ScanCursor(segments, 0, <<>>)
                    IN getFile' = [getFile EXCEPT
                          !.st = GetFileOutcome(scan),
                          !.file = IF scan.threw THEN <<>> ELSE scan.blobs,
                          !.seen = segments, !.scanned = TRUE]
                 /\ UNCHANGED <<writers, segments>>
    /\ txQueue' = Tail(txQueue)
    /\ UNCHANGED <<onError, failures, flushSentry, deletes, raVars>>

\* the oldest transaction fails with a transient I/O error
SegTxAbort ==
    /\ txQueue # <<>>
    /\ failures < MaxFailures
    /\ failures' = failures + 1
    /\ LET tx == Head(txQueue)
       IN CASE tx.kind = "add" ->
                 /\ writers' = FlushFailed(writers, tx.w, tx.i)
                 /\ UNCHANGED getFile
            [] tx.kind = "delete" -> UNCHANGED <<writers, getFile>>
            [] tx.kind = "read" ->
                 /\ getFile' = [getFile EXCEPT !.st = "rejected",
                                                !.seen = segments, !.scanned = TRUE]
                 /\ UNCHANGED writers
    /\ txQueue' = Tail(txQueue)
    /\ UNCHANGED <<onError, segments, flushSentry, deletes, raVars>>

\* a fresh sentry object `{}`: a token equal to no earlier one
SameSentry(s) == s
NewSentry(s) == s + 1

\* delete(): this.flushSentry = {}; delete the key range of this id
SegDelete ==
    /\ deletes < MaxDeletes
    /\ deletes' = deletes + 1
    /\ flushSentry' = NewSentry(flushSentry)
    /\ txQueue' = Append(txQueue, [kind |-> "delete"])
    /\ UNCHANGED <<writers, onError, failures, segments, getFile, raVars>>

\* getFile(): open a readonly cursor over the key range of this id
SegGetFile ==
    /\ getFile.calls < MaxGetFiles
    /\ getFile.st = "pending" => getFile.scanned
    /\ getFile' = [st |-> "pending", file |-> <<>>, seen |-> {},
                   scanned |-> FALSE, calls |-> getFile.calls + 1]
    /\ txQueue' = Append(txQueue, [kind |-> "read"])
    /\ UNCHANGED <<writers, onError, failures, flushSentry, segments, deletes,
                   raVars>>

SegInit ==
    /\ writers = <<>>
    /\ onError = EmptyBag
    /\ failures = 0
    /\ flushSentry = 0
    /\ segments = {}
    /\ txQueue = <<>>
    /\ getFile = [st |-> "none", file |-> <<>>, seen |-> {},
                  scanned |-> FALSE, calls |-> 0]
    /\ deletes = 0
    /\ RAFresh

SegNext ==
    \/ \E s \in 0..MaxStart : SegWriter(s)
    \/ \E w \in Writers : \E len \in 0..MaxDataLen : SegWrite(w, len)
    \/ \E w \in Writers : SegFlush(w)
    \/ \E w \in Writers : \E i \in OpsOf(w) : SegThen(w, i)
    \/ \E w \in Writers : \E i \in OpsOf(w) : SegCatch(w, i)
    \/ SegTxCommit
    \/ SegTxAbort
    \/ SegDelete
    \/ SegGetFile

SegSpec == SegInit /\ [][SegNext]_vars

\* The event loop runs every reaction that is ready and IndexedDB finishes
\* every transaction it was given.
SegProgress ==
    \/ \E w \in Writers : \E i \in OpsOf(w) : SegThen(w, i)
    \/ \E w \in Writers : \E i \in OpsOf(w) : SegCatch(w, i)
    \/ SegTxCommit

\* the writers of a storage that is neither deleted nor read back
QueueNext ==
    \/ \E s \in 0..MaxStart : SegWriter(s)
    \/ \E w \in Writers : \E len \in 0..MaxDataLen : SegWrite(w, len)
    \/ \E w \in Writers : SegFlush(w)
    \/ \E w \in Writers : \E i \in OpsOf(w) : SegThen(w, i)
    \/ \E w \in Writers : \E i \in OpsOf(w) : SegCatch(w, i)
    \/ SegTxCommit
    \/ SegTxAbort

FairQueueSpec == SegInit /\ [][QueueNext]_vars /\ WF_vars(SegProgress)

\* --------------------------------------------- MutableFileChunkStorage
\* Bytes are numbers 0..255.  A Float64Array entry is its 8 IEEE-754 bytes
\* in little-endian order; the operators are exact for the integers
\* 0..F64Max, which cover every count, position and size of the model.
F64Max == 31
BYTES == 8
NotSmallInt == -1
Undefined == -2

RECURSIVE Log2(_)
Log2(n) == IF n < 2 THEN 0 ELSE 1 + Log2(n \div 2)
RECURSIVE Pow2(_)
Pow2(e) == IF e = 0 THEN 1 ELSE 2 * Pow2(e - 1)

Zeros(n) == [k \in 1..n |-> 0]

\* the bytes of the double n: sign 0, exponent 1023 + e, the top four
\* mantissa bits in the low nibble of byte 6, all lower mantissa bits 0
F64Bytes(n) ==
    IF n = 0 THEN Zeros(BYTES)
    ELSE LET e == Log2(n)
             m4 == (n - Pow2(e)) * Pow2(4 - e)
             biased == 1023 + e
         IN Zeros(6) \o <<(biased % 16) * 16 + m4, biased \div 16>>

\* the double 8 bytes stand for: the integer of 0..F64Max they encode, or
\* some other double (NaN, a fraction, a huge or negative number)
F64Value(b) ==
    IF \E n \in 0..F64Max : F64Bytes(n) = b
    THEN CHOOSE n \in 0..F64Max : F64Bytes(n) = b
    ELSE NotSmallInt

RECURSIVE typedArrayToBuffer(_)
\* util.typedArrayToBuffer of a Float64Array: the bytes of its entries
typedArrayToBuffer(arr) ==
    IF arr = <<>> THEN <<>>
    ELSE F64Bytes(Head(arr)) \o typedArrayToBuffer(Tail(arr))

\* new Float64Array(buffer); the constructor throws a RangeError unless
\* the byte length is a multiple of 8
Float64Array(buf) ==
    [k \in 1..(Len(buf) \div BYTES) |->
        F64Value(SubSeq(buf, BYTES * (k - 1) + 1, BYTES * k))]

\* SimpleMutableFile.read(size, position): the bytes that exist in
\* [position, position + size)
FileRead(f, size, position) ==
    IF position >= Len(f) THEN <<>>
    ELSE SubSeq(f, position + 1,
                IF position + size < Len(f) THEN position + size ELSE Len(f))

\* SimpleMutableFile.write(data, position): overwrite, extending the file
\* (with zero bytes up to position) as needed
FileWrite(f, data, position) ==
    LET g == IF Len(f) < position THEN f \o Zeros(position - Len(f)) ELSE f
    IN SubSeq(g, 1, position) \o data \o
       SubSeq(g, position + Len(data) + 1, Len(g))

\* SimpleMutableFile.truncate(size): set the length of the file
FileTruncate(f, size) ==
    IF size <= Len(f) THEN SubSeq(f, 1, size)
    ELSE f \o Zeros(size - Len(f))

\* the writers load() makes of a table: Writer(this, i) for i = 1, 3, ...
\* below the length, reading entries i and i + 1 (JS indices)
WritersOfTable(t) ==
    [k \in 1..(Len(t) \div 2) |->
        <<t[2 * k], IF 2 * k + 1 <= Len(t) THEN t[2 * k + 1] ELSE Undefined>>]

\* load(totalSize) of a storage whose persistenceData is still [0]: the
\* (startPosition, writtenSize) of the writers it returns
load(f, totalSize) ==
    LET head == FileRead(f, BYTES, totalSize)
        size == IF Len(head) < BYTES THEN Undefined
                ELSE Float64Array(head)[1]
    IN IF Len(head) % BYTES # 0 THEN <<>>          \* RangeError, caught
       ELSE IF size \in {Undefined, 0, NotSmallInt} THEN <<>>
       ELSE LET buf == FileRead(f, BYTES * (size + 1), totalSize)
            IN IF Len(buf) % BYTES # 0 THEN <<>>   \* RangeError, caught
               ELSE IF Len(buf) \div BYTES # size + 1 THEN <<>>
               ELSE WritersOfTable(Float64Array(buf))

\* typed-array store persistenceData[index] = value (JS index): ignored
\* when the index is out of range
SetEntry(arr, index, value) ==
    IF index + 1 <= Len(arr) THEN [arr EXCEPT ![index + 1] = value] ELSE arr

\* bytes submitted so far to writer wr
RECURSIVE SumData(_)
SumData(ops) == IF ops = <<>> THEN 0
                ELSE Len(Head(ops).data) + SumData(Tail(ops))

\* the persist() calls since whose call a writer(), write() or reset() was
\* made are no longer calls made on a calm storage
Disturbed == [p \in 1..Len(persists) |-> [persists[p] EXCEPT !.calm = FALSE]]

\* this.persistenceData[0] += 2
HeaderPlusOne(h) == h + 1
HeaderPlusTwo(h) == h + 2

\* writer(startPosition): grow the table by (startPosition, 0) in a new
\* array, count two more entries, bind the writer to its slot
RAWriter(s) ==
    /\ Len(writers) < MaxWriters
    /\ LET persistenceIndex == Len(persistenceData)
           grown == persistenceData \o <<s, 0>>
           data == [grown EXCEPT ![1] = HeaderPlusTwo(@)]
       IN /\ persistenceData' = data
          /\ pdId' = pdId + 1
          /\ writers' = Append(writers,
                [startPosition |-> data[persistenceIndex + 1],
                 writtenSize |-> data[persistenceIndex + 2],
                 promise |-> InitPromise, ops |-> <<>>, started |-> <<>>,
                 writtenSizeIndex |-> persistenceIndex + 1,
                 written |-> <<>>, born |-> resets,
                 initial |-> data[persistenceIndex + 2]])
    /\ persists' = Disturbed
    /\ UNCHANGED <<onError, failures, segVars, file, persistSentry,
                   truncs, resets, lastIO, loading>>

\* write(data) on a writer of the random-access storage; the caller keeps
\* the writer inside the logical file [0, TotalSize)
RAWrite(w, len) ==
    /\ TotalOps < MaxFileOps
    /\ writers[w].startPosition + writers[w].initial
          + SumData(writers[w].ops) + len <= TotalSize
    /\ Write(w, len)
    /\ persists' = Disturbed
    /\ UNCHANGED <<segVars, file, persistenceData, pdId, persistSentry,
                   truncs, resets, lastIO, loading>>

RACatch(w, i) == CatchHandler(w, i) /\ UNCHANGED <<segVars, raVars>>

\* the file offset of a write: startPosition + writtenSize
WritePositionAtStart(wr) == wr.startPosition
WritePosition(wr) == wr.startPosition + wr.writtenSize

\* the then-reaction of result = this.promise.then(fn) for a random-access
\* writer: Writer.doWrite up to its await (file.write is requested)
RAThen(w, i) ==
    /\ writers[w].ops[i].st = "queued"
    /\ ThenReady(w, i)
    /\ IF PromiseState(w, writers[w].ops[i].prev) = "rejected"
       THEN writers' = PassRejection(w, i)
       ELSE LET wr == writers[w]
                ws == [Begin(writers, w, i) EXCEPT
                         ![w].ops[i].stale = wr.born < resets]
            IN IF Len(wr.ops[i].data) = 0
               THEN writers' = Settle(ws, w, i, "fulfilled")
               ELSE writers' = [Settle(ws, w, i, "running") EXCEPT
                        ![w].ops[i].pd = pdId,
                        ![w].ops[i].pos = WritePosition(wr)]
    /\ UNCHANGED <<onError, failures, segVars, raVars>>

\* this.writtenSize += data.length
SizePlusTwiceLength(wr, data) == wr.writtenSize + 2 * Len(data)
SizePlusLength(wr, data) == wr.writtenSize + Len(data)

\* file.write of a doWrite succeeds: the bytes reach the file, doWrite
\* resumes: writtenSize += data.length, the slot of the array captured
\* before the await is set
RAWriteDone(w, i) ==
    /\ writers[w].ops[i].st = "running"
    /\ LET o == writers[w].ops[i]
           size == SizePlusLength(writers[w], o.data)
       IN /\ file' = FileWrite(file, o.data, o.pos)
          /\ writers' = [Settle(writers, w, i, "fulfilled") EXCEPT
                ![w].writtenSize = size,
                ![w].written = @ \o o.data]
          /\ persistenceData' =
                IF o.pd = pdId
                THEN SetEntry(persistenceData, writers[w].writtenSizeIndex, size)
                ELSE persistenceData
    /\ UNCHANGED <<onError, failures, segVars, pdId, persistSentry, persists,
                   truncs, resets, lastIO, loading>>

\* `await this.parent.file.write(...)` throws: doWrite ends there,
\* writtenSize and the table keep their values
WriteFailedCountsBytes(ws, w, i) ==
    [Settle(ws, w, i, "rejected") EXCEPT
        ![w].writtenSize = @ + Len(ws[w].ops[i].data)]
WriteFailed(ws, w, i) == Settle(ws, w, i, "rejected")

\* file.write of a doWrite fails with a transient I/O error
RAWriteFail(w, i) ==
    /\ writers[w].ops[i].st = "running"
    /\ failures < MaxFileFailures
    /\ failures' = failures + 1
    /\ writers' = WriteFailed(writers, w, i)
    /\ UNCHANGED <<onError, segVars, raVars>>

\* the (startPosition, writtenSize) of the live writers, in creation order
LiveWriters == [w \in Writers |->
                  <<writers[w].startPosition, writers[w].writtenSize>>]
WritesSettled ==
    \A w \in Writers : \A i \in OpsOf(w) :
        writers[w].ops[i].st = "fulfilled" \/
        (writers[w].ops[i].st = "rejected" /\ writers[w].ops[i].caught)

\* persist(totalSize, final): remember the sentry, queue the body on the
\* critical section
RAPersist(final) ==
    /\ Len(persists) < MaxPersists
    /\ persists' = Append(persists,
          [final |-> final, sentry |-> persistSentry, st |-> "waiting",
           bytes |-> <<>>, born |-> resets, calm |-> WritesSettled,
           entered |-> -1])
    /\ UNCHANGED <<qVars, segVars, file, persistenceData, pdId,
                   persistSentry, truncs, resets, lastIO, loading>>

\* CriticalSection.sync runs a body once no earlier body is still inside
CriticalSectionFree == \A q \in 1..Len(persists) : persists[q].st # "io"

\* if (sentry !== this.persistSentry) return
SentryNeverStale(p) == FALSE
SentryStale(p) == persists[p].sentry # persistSentry

\* the body of a persist() enters the critical section (no other body is
\* inside): the sentry check, then file.truncate or file.write is requested
RAPersistEnter(p) ==
    /\ persists[p].st = "waiting"
    /\ CriticalSectionFree
    /\ persists' =
          IF SentryStale(p)
          THEN [persists EXCEPT ![p].st = "skipped", ![p].entered = resets]
          ELSE [persists EXCEPT ![p].st = "io", ![p].entered = resets,
                   ![p].bytes = IF persists[p].final THEN <<>>
                                ELSE typedArrayToBuffer(persistenceData)]
    /\ UNCHANGED <<qVars, segVars, file, persistenceData, pdId,
                   persistSentry, truncs, resets, lastIO, loading>>

\* the file request of a persist() succeeds; the body leaves the critical
\* section
RAPersistDone(p) ==
    /\ persists[p].st = "io"
    /\ file' = IF persists[p].final THEN FileTruncate(file, TotalSize)
               ELSE FileWrite(file, persists[p].bytes, TotalSize)
    /\ persists' = [persists EXCEPT ![p].st = "done"]
    /\ lastIO' = p
    /\ UNCHANGED <<qVars, segVars, persistenceData, pdId, persistSentry,
                   truncs, resets, loading>>

\* the file request of a persist() fails with a transient I/O error
RAPersistFail(p) ==
    /\ persists[p].st = "io"
    /\ failures < MaxFileFailures
    /\ failures' = failures + 1
    /\ persists' = [persists EXCEPT ![p].st = "failed"]
    /\ lastIO' = p
    /\ UNCHANGED <<writers, onError, segVars, file, persistenceData, pdId,
                   persistSentry, truncs, resets, loading>>

\* reset(): a new table [0], a new sentry, truncate(0) requested and not
\* awaited
RAReset ==
    /\ resets < MaxResets
    /\ resets' = resets + 1
    /\ persistenceData' = <<0>>
    /\ pdId' = pdId + 1
    /\ persistSentry' = NewSentry(persistSentry)
    /\ truncs' = truncs + 1
    /\ persists' = Disturbed
    /\ UNCHANGED <<qVars, segVars, file, lastIO, loading>>

\* a truncate(0) requested by reset() is carried out
RATruncateDone ==
    /\ truncs > 0
    /\ truncs' = truncs - 1
    /\ file' = FileTruncate(file, 0)
    /\ UNCHANGED <<qVars, segVars, persistenceData, pdId, persistSentry,
                   persists, resets, lastIO, loading>>

RAInit ==
    /\ writers = <<>>
    /\ onError = EmptyBag
    /\ failures = 0
    /\ flushSentry = 0
    /\ segments = {}
    /\ txQueue = <<>>
    /\ getFile = [st |-> "none", file |-> <<>>, seen |-> {},
                  scanned |-> FALSE, calls |-> 0]
    /\ deletes = 0
    /\ RAFresh

RANext ==
    \/ \E s \in 0..MaxStart : RAWriter(s)
    \/ \E w \in Writers : \E len \in 0..MaxDataLen : RAWrite(w, len)
    \/ \E w \in Writers : \E i \in OpsOf(w) : RAThen(w, i)
    \/ \E w \in Writers : \E i \in OpsOf(w) : RAWriteDone(w, i)
    \/ \E w \in Writers : \E i \in OpsOf(w) : RAWriteFail(w, i)
    \/ \E w \in Writers : \E i \in OpsOf(w) : RACatch(w, i)
    \/ \E final \in BOOLEAN : RAPersist(final)
    \/ \E p \in 1..Len(persists) : RAPersistEnter(p)
    \/ \E p \in 1..Len(persists) : RAPersistDone(p)
    \/ \E p \in 1..Len(persists) : RAPersistFail(p)

\* a storage that is never reset
Spec == RAInit /\ [][RANext]_vars

ResetNext ==
    \/ RANext
    \/ RAReset
    \/ RATruncateDone

ResetSpec == RAInit /\ [][ResetNext]_vars

\* ------------------------------------------ MutableFileChunkStorage.load
\* new MutableFileChunkStorage.Writer(this, i): startPosition and
\* writtenSize read from entries i and i + 1 (JS indices) of the table, an
\* entry beyond its end reading as undefined
LoadedWriter(t, i) ==
    LET writtenSize == IF i + 2 <= Len(t) THEN t[i + 2] ELSE Undefined
    IN [startPosition |-> t[i + 1], writtenSize |-> writtenSize,
        promise |-> InitPromise, ops |-> <<>>, started |-> <<>>,
        writtenSizeIndex |-> i + 1, written |-> <<>>, born |-> resets,
        initial |-> writtenSize]

\* for (let i = 1; i < persistenceData.length; i += 2) result.push(Writer)
LoadedWriters(t) == [k \in 1..(Len(t) \div 2) |-> LoadedWriter(t, 2 * k - 1)]

\* load() returns: `return []` inside the try (fromTable FALSE), or the
\* writers of this.persistenceData after the try statement
LoadReturn(table, fromTable) ==
    /\ writers' = IF fromTable THEN writers \o LoadedWriters(table) ELSE writers
    /\ loading' = [loading EXCEPT !.pc = "done",
                     !.result = IF fromTable THEN WritersOfTable(table)
                                ELSE <<>>]

\* load(totalSize): the read of the header is requested
LoadStart(totalSize) ==
    /\ loading.pc = "none"
    /\ loading' = [loading EXCEPT !.pc = "header", !.totalSize = totalSize]
    /\ UNCHANGED <<qVars, segVars, file, persistenceData, pdId, persistSentry,
                   persists, truncs, resets, lastIO>>

\* the header read completes.  Fewer than 8 bytes: no byte gives an empty
\* Float64Array whose [0] is undefined, 1..7 bytes make the constructor
\* throw.  `!size` holds for undefined, 0 and NaN; any other double that is
\* not a small integer (a fraction, a negative or huge number) asks for a
\* table the file cannot deliver, which also ends in an empty result.
LoadHeaderRead ==
    /\ loading.pc = "header"
    /\ LET head == FileRead(file, BYTES, loading.totalSize)
           size == IF head = <<>> THEN Undefined ELSE Float64Array(head)[1]
       IN IF Len(head) % BYTES # 0
          THEN LoadReturn(persistenceData, TRUE)
          ELSE IF size \in {Undefined, 0, NotSmallInt}
          THEN LoadReturn(persistenceData, FALSE)
          ELSE /\ loading' = [loading EXCEPT !.pc = "table", !.size = size]
               /\ UNCHANGED writers
    /\ UNCHANGED <<onError, failures, segVars, file, persistenceData, pdId,
                   persistSentry, persists, truncs, resets, lastIO>>

\* the table read completes: the table replaces persistenceData when it
\* has size + 1 entries (and persistenceData was still the initial [0])
LoadTableRead ==
    /\ loading.pc = "table"
    /\ LET buf == FileRead(file, BYTES * (loading.size + 1), loading.totalSize)
           data == Float64Array(buf)
       IN IF Len(buf) % BYTES # 0
          THEN LoadReturn(persistenceData, TRUE)
               /\ UNCHANGED <<persistenceData, pdId>>
          ELSE IF Len(data) # loading.size + 1
          THEN LoadReturn(persistenceData, FALSE)
               /\ UNCHANGED <<persistenceData, pdId>>
          ELSE IF Len(persistenceData) # 1
          THEN LoadReturn(persistenceData, TRUE)
               /\ UNCHANGED <<persistenceData, pdId>>
          ELSE /\ LoadReturn(data, TRUE)
               /\ persistenceData' = data
               /\ pdId' = pdId + 1
    /\ UNCHANGED <<onError, failures, segVars, file, persistSentry, persists,
                   truncs, resets, lastIO>>

\* a read of load() fails: the catch clause logs the error, the writers of
\* the unchanged persistenceData are returned
LoadReadFail ==
    /\ loading.pc \in {"header", "table"}
    /\ failures < MaxFileFailures
    /\ failures' = failures + 1
    /\ LoadReturn(persistenceData, TRUE)
    /\ UNCHANGED <<onError, segVars, file, persistenceData, pdId,
                   persistSentry, persists, truncs, resets, lastIO>>

\* The files init(true) may find.  A table entry is a small integer or
\* NaN; the trailer is the image of a table cut anywhere in its last entry,
\* behind MaxLoadAt or fewer data bytes.
NaNBytes == <<0, 0, 0, 0, 0, 0, 248, 127>>
EntryBytes(v) == IF v = NotSmallInt THEN NaNBytes ELSE F64Bytes(v)

RECURSIVE ImageOf(_)
ImageOf(t) == IF t = <<>> THEN <<>> ELSE EntryBytes(Head(t)) \o ImageOf(Tail(t))

StoredTables ==
    UNION {[1..n -> (0..MaxEntry) \cup {NotSmallInt}] : n \in 0..MaxEntries}
StoredFiles ==
    {[k \in 1..pad |-> 7] \o SubSeq(ImageOf(t), 1, Len(ImageOf(t)) - cut) :
        pad \in 0..MaxLoadAt, cut \in 0..(BYTES - 1),
        t \in {u \in StoredTables : u # <<>>}} \cup {<<>>}

\* the storage after init(true) found one of `files`
OpenedOver(files) ==
    /\ writers = <<>>
    /\ onError = EmptyBag
    /\ failures = 0
    /\ flushSentry = 0
    /\ segments = {}
    /\ txQueue = <<>>
    /\ getFile = [st |-> "none", file |-> <<>>, seen |-> {},
                  scanned |-> FALSE, calls |-> 0]
    /\ deletes = 0
    /\ file \in files
    /\ persistenceData = <<0>>
    /\ pdId = 0
    /\ persistSentry = 0
    /\ persists = <<>>
    /\ truncs = 0
    /\ resets = 0
    /\ lastIO = 0
    /\ loading = [pc |-> "none", totalSize |-> 0, size |-> 0, result |-> <<>>]

LoadInit == OpenedOver(StoredFiles)

LoadNext ==
    \/ \E totalSize \in 0..MaxLoadAt : LoadStart(totalSize)
    \/ LoadHeaderRead
    \/ LoadTableRead
    \/ LoadReadFail

\* load() on a storage opened over an existing file
LoadSpec == LoadInit /\ [][LoadNext]_vars

\* the files a storage of one writer leaves behind: TotalSize data bytes and
\* the table persist(TotalSize, false) wrote, or nothing
ResumableFiles ==
    {Zeros(TotalSize) \o typedArrayToBuffer(<<2, s, n>>) :
        s \in 0..MaxStart, n \in 0..TotalSize} \cup {<<>>}

ResumeInit ==
    OpenedOver({f \in ResumableFiles :
        \A k \in 1..Len(load(f, TotalSize)) :
            load(f, TotalSize)[k][1] + load(f, TotalSize)[k][2] <= TotalSize})

ResumeNext ==
    \/ LoadStart(TotalSize)
    \/ LoadHeaderRead
    \/ LoadTableRead
    \/ LoadReadFail
    \/ (loading.pc = "done" /\ RANext)

\* a storage that is reopened, loaded and then written to, never reset
ResumeSpec == ResumeInit /\ [][ResumeNext]_vars

\* ======================================================== claims (queue)
Settled(o) == o.st \in {"fulfilled", "rejected"}
BodyFailed(o) == o.ran /\ o.st = "rejected"

\* C1: on every writer the bodies of write()/flush() start in the order of
\* the calls, and a body starts only after the bodies of all earlier calls
\* on that writer have finished (succeeded or failed).
C1_CallOrder ==
    \A w \in Writers :
        /\ \A k \in 1..Len(writers[w].started) : writers[w].started[k] = k
        /\ \A i \in OpsOf(w) : \A j \in OpsOf(w) :
              (i < j /\ writers[w].ops[j].ran) => Settled(writers[w].ops[i])

\* three bodies of one writer have started, one of them failed, while
\* another writer's operation was started in between
C1_Witness ==
    \E w \in Writers : \E v \in Writers :
        /\ v # w
        /\ Len(writers[w].started) = 3
        /\ \E i \in OpsOf(w) : BodyFailed(writers[w].ops[i])
        /\ writers[v].started # <<>>

\* C2: a write()/flush() whose body failed has, once its catch handler has
\* run, exactly one event on onError carrying its failure; any other
\* operation has none.
C2_OneErrorPerFailure ==
    \A w \in Writers : \A i \in OpsOf(w) :
        LET o == writers[w].ops[i]
            n == CopiesIn(<<w, i>>, onError)
        IN IF BodyFailed(o) /\ o.caught THEN n = 1 ELSE n = 0

\* two operations failed in a row, the second one already queued when the
\* first failure was handled (both handlers wrapped the same tail)
C2_Witness ==
    \E w \in Writers : \E i \in OpsOf(w) :
        /\ i > 1
        /\ BodyFailed(writers[w].ops[i - 1]) /\ writers[w].ops[i - 1].caught
        /\ BodyFailed(writers[w].ops[i]) /\ writers[w].ops[i].caught
        /\ writers[w].promise = [kind |-> "catch", op |-> i, heals |-> 2]
        /\ CopiesIn(<<w, i - 1>>, onError) = 1
        /\ CopiesIn(<<w, i>>, onError) = 1

\* C3: when every body settles and the event loop keeps running, every
\* submitted write()/flush() has its body started: again and again all the
\* operations submitted so far have started.
C3_NoPermanentBlock ==
    []<>(\A w \in Writers : \A i \in OpsOf(w) : writers[w].ops[i].ran)

\* an operation started after the two operations before it failed
C3_Witness ==
    \E w \in Writers : \E i \in OpsOf(w) :
        /\ i > 2
        /\ BodyFailed(writers[w].ops[i - 2])
        /\ BodyFailed(writers[w].ops[i - 1])
        /\ writers[w].ops[i].ran

\* ------------------------------------------------------------------ load
\* the header value load(totalSize) finds in file f, Undefined when fewer
\* than 8 bytes are there
HeaderAt(f, totalSize) ==
    IF Len(FileRead(f, BYTES, totalSize)) < BYTES THEN Undefined
    ELSE F64Value(FileRead(f, BYTES, totalSize))

\* the metadata at totalSize is well formed: a header that is a positive
\* even number and all the entries it announces
WellFormedAt(f, totalSize) ==
    LET h == HeaderAt(f, totalSize)
    IN /\ h \in 1..F64Max
       /\ h % 2 = 0
       /\ Len(FileRead(f, BYTES * (h + 1), totalSize)) = BYTES * (h + 1)

\* C11: when load(totalSize) has returned, it returned writers only if no
\* read failed and the metadata at totalSize is well formed, then one
\* writer per announced pair; no returned writer has an undefined
\* startPosition or writtenSize.
C11_LoadMalformedIsEmpty ==
    loading.pc = "done" =>
        /\ loading.result # <<>> =>
              /\ failures = 0
              /\ WellFormedAt(file, loading.totalSize)
              /\ 2 * Len(loading.result) = HeaderAt(file, loading.totalSize)
        /\ \A k \in 1..Len(loading.result) :
              /\ loading.result[k][1] # Undefined
              /\ loading.result[k][2] # Undefined

\* ==================================================== claims (segmented)
RECURSIVE TotalBytes(_)
\* total size of the records of S
TotalBytes(S) ==
    IF S = {} THEN 0
    ELSE LET r == CHOOSE x \in S : TRUE
         IN Len(r.data) + TotalBytes(S \ {r})

\* total size of the records of S whose key is below k
BytesBelow(S, k) == TotalBytes({r \in S : r.key < k})

OwnSegments(w) == {r \in segments : r.owner = w}
HasTx(w, i) ==
    \E k \in 1..Len(txQueue) :
        txQueue[k].kind = "add" /\ txQueue[k].w = w /\ txQueue[k].i = i

\* C6: for a writer whose sentry is current, the stored segments of the
\* writer tile from its startPosition, each holds the bytes written at its
\* offset, the buffer holds exactly the bytes written since the last
\* successful flush, and there is one segment per successful flush that
\* found a non-empty buffer; a flush that found it empty stored nothing.
C6_OneSegmentPerFlush ==
    \A w \in Writers :
        writers[w].flushSentry = flushSentry =>
        LET wr == writers[w]
            own == OwnSegments(w)
        IN /\ \A r \in own :
                 /\ r.key = wr.startPosition + BytesBelow(own, r.key)
                 /\ r.data = SubSeq(wr.written, r.key - wr.startPosition + 1,
                                    r.key - wr.startPosition + Len(r.data))
           /\ concatTypedArray(wr.bufferData) =
                 SubSeq(wr.written, TotalBytes(own) + 1, Len(wr.written))
           /\ Cardinality(own) = Cardinality({i \in OpsOf(w) :
                 /\ wr.ops[i].kind = "flush" /\ wr.ops[i].st = "fulfilled"
                 /\ wr.ops[i].hadData})
           /\ \A i \in OpsOf(w) :
                 wr.ops[i].stored = IF /\ wr.ops[i].kind = "flush"
                                       /\ wr.ops[i].st = "fulfilled"
                                       /\ wr.ops[i].hadData
                                    THEN 1 ELSE 0

\* write(X), write(Y), flush() stored one segment of both, and a further
\* flush() without new data has succeeded
C6_Witness ==
    \E w \in Writers :
        /\ writers[w].flushSentry = flushSentry
        /\ Cardinality(OwnSegments(w)) = 1
        /\ \E r \in OwnSegments(w) : Len(r.data) = 2
        /\ Len(writers[w].ops) = 4
        /\ writers[w].ops[4].kind = "flush"
        /\ writers[w].ops[4].st = "fulfilled"

\* C7: a flush() of a writer created before delete() whose body starts
\* after the delete() stores nothing, queues no transaction, resolves and
\* reports no error; a flush() of a writer created after it that finds
\* data in the buffer stores its segment in a transaction as usual.
C7_StaleFlushIsNoOp ==
    \A w \in Writers : \A i \in OpsOf(w) :
        LET o == writers[w].ops[i]
        IN (o.kind = "flush" /\ o.ran) =>
             /\ o.stale =>
                   /\ o.st = "fulfilled"
                   /\ o.stored = 0
                   /\ ~HasTx(w, i)
                   /\ CopiesIn(<<w, i>>, onError) = 0
             /\ (~o.stale /\ o.hadData) =>
                   \/ o.st = "running" /\ HasTx(w, i)
                   \/ o.st = "fulfilled" /\ o.stored = 1
                   \/ o.st = "rejected"

\* a writer with buffered data flushed after delete() while a writer
\* created after the delete() has stored a segment
C7_Witness ==
    \E w \in Writers : \E v \in Writers :
        /\ \E i \in OpsOf(w) :
              /\ writers[w].ops[i].kind = "flush"
              /\ writers[w].ops[i].ran /\ writers[w].ops[i].stale
              /\ writers[w].ops[i].hadData
        /\ writers[v].born = deletes /\ deletes > 0
        /\ \E i \in OpsOf(v) : writers[v].ops[i].stored = 1

\* the records of S, in key order, tile from offset 0
Tiles(S) == \A r \in S : r.key = BytesBelow(S, r.key)

\* C8: once getFile()'s cursor has stopped on segments that do not tile
\* from offset 0, the promise getFile() returned is rejected.
C8_GetFileRejectsOnGap ==
    (getFile.scanned /\ ~Tiles(getFile.seen)) => getFile.st = "rejected"

\* ================================================ claims (random access)
\* C4: a persist(TotalSize, false) called when all issued writes had
\* settled, with no writer(), write() or reset() since, has resolved, and
\* no later persist touched the file: load(TotalSize) on a fresh instance
\* over the same file returns one writer per live writer, in creation
\* order, with the (startPosition, writtenSize) of the live writer.
C4_PersistLoadRoundTrip ==
    \A p \in 1..Len(persists) :
        (/\ persists[p].st = "done" /\ ~persists[p].final
         /\ persists[p].calm /\ lastIO = p)
        => load(file, TotalSize) = LiveWriters

\* the bytes writer w was asked to write, in call order
Submitted(w) ==
    concatTypedArray([i \in OpsOf(w) |-> writers[w].ops[i].data])

\* every offset of [0, TotalSize) lies in the region of exactly one writer
RegionsTile ==
    \A x \in 0..(TotalSize - 1) :
        Cardinality({w \in Writers :
            /\ writers[w].startPosition <= x
            /\ x < writers[w].startPosition + Len(Submitted(w))}) = 1

NoPersistPending ==
    \A p \in 1..Len(persists) : persists[p].st \notin {"waiting", "io"}

\* all writes succeeded, the regions tile [0, TotalSize), and the last
\* persist to touch the file was a persist(TotalSize, true) that resolved
FinalizedCase ==
    /\ resets = 0
    /\ Writers # {}
    /\ \A w \in Writers : \A i \in OpsOf(w) :
          writers[w].ops[i].st = "fulfilled"
    /\ RegionsTile
    /\ NoPersistPending
    /\ lastIO # 0
    /\ persists[lastIO].final
    /\ persists[lastIO].st = "done"

\* C5: in that case the file getFile() exports has exactly TotalSize
\* bytes, and the bytes of every writer lie in it in write order from the
\* writer's startPosition (no table is left behind at TotalSize).
C5_FinalFile ==
    FinalizedCase =>
        /\ Len(file) = TotalSize
        /\ \A w \in Writers :
              SubSeq(file, writers[w].startPosition + 1,
                     writers[w].startPosition + Len(Submitted(w)))
                = Submitted(w)

\* two writers filled the file, a persist(TotalSize, false) wrote the
\* table behind it, then persist(TotalSize, true) resolved
C5_Witness ==
    /\ FinalizedCase
    /\ Len(writers) = 2
    /\ Len(persists) = 2
    /\ ~persists[1].final /\ persists[1].st = "done"
    /\ lastIO = 2

\* C9: after reset(), once the persist() calls issued before it and the
\* operations of the writers it invalidated have settled and no file
\* request is in flight (no writer or persist created since), the file is
\* empty and load(0) returns no writer.
C9_ResetEmptiesFile ==
    (/\ resets > 0
     /\ truncs = 0
     /\ NoPersistPending
     /\ WritesSettled
     /\ \A p \in 1..Len(persists) : persists[p].born < resets
     /\ \A w \in Writers : writers[w].born < resets)
    => (file = <<>> /\ load(file, 0) = <<>>)

\* C10: the step in which a write of a writer created before reset(),
\* its body begun after the reset(), completes (the truncate of the reset
\* already carried out) changes neither the file nor the persistence table.
C10_ResetInvalidatesWriters ==
    [][\A w \in Writers : \A i \in OpsOf(w) :
          (/\ writers[w].ops[i].stale
           /\ truncs = 0
           /\ writers[w].ops[i].st = "running"
           /\ writers'[w].ops[i].st = "fulfilled")
          => (file' = file /\ persistenceData' = persistenceData)]_vars

\* a doWrite of writer w is suspended at its await
WriteInProgress(w) == \E i \in OpsOf(w) : writers[w].ops[i].st = "running"

\* C12: between any two steps, every writer created since the last reset
\* that has no write body in progress finds its own writtenSize in its slot
\* of the persistence table.
C12_SlotEqualsWrittenSize ==
    \A w \in Writers :
        (writers[w].born = resets /\ ~WriteInProgress(w)) =>
            /\ writers[w].writtenSizeIndex + 1 <= Len(persistenceData)
            /\ persistenceData[writers[w].writtenSizeIndex + 1]
                  = writers[w].writtenSize

\* the persist bodies inside the critical section
InCriticalSection == {p \in 1..Len(persists) : persists[p].st = "io"}

\* C13: at most one persist body is inside the critical section; a
\* persist() called before a reset() whose body begins after it requests
\* nothing of the file (no image taken, never in I/O) and resolves, and a
\* body that begins in the generation of its call does its file request.
C13_PersistExclusiveAndSentry ==
    /\ Cardinality(InCriticalSection) <= 1
    /\ \A p \in 1..Len(persists) :
          LET c == persists[p]
          IN /\ (c.entered >= 0 /\ c.born < c.entered) =>
                   (c.st = "skipped" /\ c.bytes = <<>>)
             /\ (c.entered >= 0 /\ c.born = c.entered) =>
                   c.st \in {"io", "done", "failed"}

\* a persist(T, false) called before reset() was skipped, one called after
\* it has written the table, while both were waiting at the same time
C13_Witness ==
    /\ Len(persists) = 2
    /\ persists[1].born = 0 /\ persists[1].entered = 1
    /\ persists[1].st = "skipped"
    /\ persists[2].born = 1 /\ ~persists[2].final
    /\ persists[2].st = "done"
    /\ lastIO = 2

\* the writers created since the last reset(), a suffix of `writers`
CurrentWriters == {w \in Writers : writers[w].born = resets}

\* C14: the persistence table has 1 + 2 * (writers created since the last
\* reset) entries, its header is its length minus 1, and the k-th writer
\* created since the last reset has its startPosition at entry 2k - 1 and
\* is bound to entry 2k.
C14_TableShape ==
    LET n == Cardinality(CurrentWriters)
        first == Len(writers) - n
    IN /\ Len(persistenceData) = 1 + 2 * n
       /\ persistenceData[1] = Len(persistenceData) - 1
       /\ \A k \in 1..n :
             /\ first + k \in CurrentWriters
             /\ persistenceData[2 * k] = writers[first + k].startPosition
             /\ writers[first + k].writtenSizeIndex = 2 * k

\* after a reset() a new writer was created, and a write of a writer of
\* the generation before, begun after that, has stored into the new table
C14_Witness ==
    /\ resets = 1
    /\ \E w \in Writers : writers[w].born = 1 /\ writers[w].startPosition = 1
    /\ \E v \in Writers : \E i \in OpsOf(v) :
          /\ writers[v].born = 0
          /\ writers[v].ops[i].stale
          /\ writers[v].ops[i].st = "fulfilled"
          /\ writers[v].ops[i].data # <<>>
          /\ writers[v].ops[i].pd = pdId

RECURSIVE SuccessBytes(_, _)
\* total length of the data of the first n operations of writer w whose
\* file write completed successfully
SuccessBytes(w, n) ==
    IF n = 0 THEN 0
    ELSE SuccessBytes(w, n - 1) +
         (IF writers[w].ops[n].st = "fulfilled"
          THEN Len(writers[w].ops[n].data) ELSE 0)

\* C15: without reset, writtenSize of a writer is its initial (loaded)
\* writtenSize plus the length of the data of its writes that completed
\* successfully, every write is sent to the file offset startPosition +
\* initial writtenSize + bytes of the successful writes before it (failed
\* writes do not move it), and no step decreases writtenSize.
C15_WrittenSizeCountsSuccesses ==
    /\ [](\A w \in Writers :
            /\ writers[w].writtenSize =
                  writers[w].initial + SuccessBytes(w, Len(writers[w].ops))
            /\ \A i \in OpsOf(w) :
                  (writers[w].ops[i].ran /\ writers[w].ops[i].data # <<>>) =>
                      writers[w].ops[i].pos =
                          writers[w].startPosition + writers[w].initial
                              + SuccessBytes(w, i - 1))
    /\ [][\A w \in Writers :
            writers'[w].writtenSize >= writers[w].writtenSize]_vars

\* on a writer returned by load(), a write failed and the write after it
\* succeeded at the same file offset
C15_Witness ==
    /\ loading.pc = "done"
    /\ \E w \in 1..Len(loading.result) :
          /\ Len(writers[w].ops) = 2
          /\ BodyFailed(writers[w].ops[1]) /\ writers[w].ops[1].data # <<>>
          /\ writers[w].ops[2].st = "fulfilled" /\ writers[w].ops[2].data # <<>>
          /\ writers[w].ops[2].pos = writers[w].ops[1].pos
          /\ writers[w].writtenSize = writers[w].initial + 1

\* C16: once nothing is pending any more, every persist() whose file
\* request failed has an event of its own on onError (the event of
\* persist call p is <<0, p>>; writer operations report <<w, i>>, w >= 1).
C16_PersistFailureReported ==
    (WritesSettled /\ NoPersistPending) =>
        \A p \in 1..Len(persists) :
            persists[p].st = "failed" => CopiesIn(<<0, p>>, onError) >= 1

\* C17: the promise write()/flush() returned for an operation whose body
\* failed is not rejected.
C17_ReturnedFutureAbsorbsFailure ==
    \A w \in Writers : \A i \in OpsOf(w) :
        BodyFailed(writers[w].ops[i]) =>
            PromiseState(w, SyncReturn(i)) # "rejected"

RECURSIVE WrittenBytes(_)
\* number of bytes written by the writers 1..n
WrittenBytes(n) ==
    IF n = 0 THEN 0 ELSE Len(writers[n].written) + WrittenBytes(n - 1)

\* the regions of the writers are disjoint and cover [0, N), N the number
\* of bytes written; nothing failed, nothing was deleted, every operation
\* has settled and every buffer is flushed; getFile()'s cursor has run over
\* the segments now stored
AllFlushedCase ==
    /\ failures = 0 /\ deletes = 0
    /\ Writers # {}
    /\ \A w \in Writers :
          /\ writers[w].bufferData = <<>>
          /\ \A i \in OpsOf(w) : writers[w].ops[i].st = "fulfilled"
    /\ \A x \in 0..(WrittenBytes(Len(writers)) - 1) :
          Cardinality({w \in Writers :
              /\ writers[w].startPosition <= x
              /\ x < writers[w].startPosition + Len(writers[w].written)}) = 1
    /\ getFile.scanned
    /\ getFile.seen = segments

\* C18: in that case getFile() has resolved with a file of exactly N
\* bytes in which the data of every writer lies at the writer's
\* startPosition.
C18_GetFileAssembles ==
    AllFlushedCase =>
        /\ getFile.st = "resolved"
        /\ Len(getFile.file) = WrittenBytes(Len(writers))
        /\ \A w \in Writers :
              SubSeq(getFile.file, writers[w].startPosition + 1,
                     writers[w].startPosition + Len(writers[w].written))
                = writers[w].written

\* two writers at 0 and 1 each flushed a byte and getFile() returned both
C18_Witness ==
    /\ AllFlushedCase
    /\ Len(writers) = 2
    /\ \A w \in Writers : Cardinality(OwnSegments(w)) = 1
    /\ Len(getFile.file) = 2

\* what a table image records: the (startPosition, writtenSize) pairs
RecordedIn(bytes) == WritersOfTable(Float64Array(bytes))

\* every pair of a table image belongs to the writer of that rank and
\* records at most the bytes of that writer that are in the file
NeverAhead(pairs) ==
    /\ Len(pairs) <= Len(writers)
    /\ \A k \in 1..Len(pairs) :
          /\ pairs[k][1] = writers[k].startPosition
          /\ pairs[k][2] \in 0..Len(writers[k].written)

\* C19: without reset, every table image a persist() has handed to the
\* file, and the table load(TotalSize) reads back from the file, records
\* for each writer at most the bytes whose file write has completed.
C19_TableNeverAhead ==
    /\ \A p \in 1..Len(persists) :
          (~persists[p].final /\ persists[p].st \in {"io", "done", "failed"})
              => NeverAhead(RecordedIn(persists[p].bytes))
    /\ NeverAhead(load(file, TotalSize))

\* a table written to the file records 1 byte of a writer and 0 bytes of
\* another writer that has a byte in the file
C19_Witness ==
    \E p \in 1..Len(persists) :
        /\ persists[p].st = "done" /\ ~persists[p].final /\ lastIO = p
        /\ Len(load(file, TotalSize)) = 2
        /\ \E w \in Writers : \E v \in Writers :
              /\ load(file, TotalSize)[w][2] = 1
              /\ load(file, TotalSize)[v][2] = 0
              /\ Len(writers[v].written) = 1

\* C20: for every segmented writer, writtenSize is the flushed bytes
\* (bufferPosition - startPosition) plus the buffered bytes, the buffer
\* holds exactly the bytes written behind the flushed position, a store in
\* flight carries the whole buffer to the key bufferPosition, and (nothing
\* deleted) the stored segments are the bytes before the flushed position,
\* each at its own offset: a failed flush loses nothing.
C20_FailedFlushKeepsData ==
    \A w \in Writers :
        LET wr == writers[w]
            flushed == wr.bufferPosition - wr.startPosition
            buffered == concatTypedArray(wr.bufferData)
        IN /\ wr.writtenSize = flushed + Len(buffered)
           /\ buffered = SubSeq(wr.written, flushed + 1, Len(wr.written))
           /\ \A k \in 1..Len(txQueue) :
                 (txQueue[k].kind = "add" /\ txQueue[k].w = w) =>
                     /\ txQueue[k].key = wr.bufferPosition
                     /\ txQueue[k].data = buffered
           /\ deletes = 0 =>
                 /\ TotalBytes(OwnSegments(w)) = flushed
                 /\ \A r \in OwnSegments(w) :
                       r.data = SubSeq(wr.written,
                                       r.key - wr.startPosition + 1,
                                       r.key - wr.startPosition + Len(r.data))

\* write(X), a flush() whose transaction failed, write(Y), then a flush()
\* that stored X and Y as one segment at startPosition
C20_Witness ==
    \E w \in Writers :
        /\ Len(writers[w].ops) = 4
        /\ writers[w].ops[2].kind = "flush" /\ BodyFailed(writers[w].ops[2])
        /\ writers[w].ops[2].hadData
        /\ writers[w].ops[3].kind = "write" /\ writers[w].ops[3].data # <<>>
        /\ writers[w].ops[4].kind = "flush" /\ writers[w].ops[4].stored = 1
        /\ OwnSegments(w) =
              {[key |-> writers[w].startPosition, owner |-> w,
                data |-> writers[w].ops[1].data \o writers[w].ops[3].data]}

====
